---- MODULE Spec2Model ----
(***************************************************************************)
(* Model of the aetherforge MAVLink v2 UDP listener: the frame decoder     *)
(* (parseFrame), the message dispatcher (tryHeartbeat, tryGlobalPosition)  *)
(* and the listener session of main (receive goroutine, cancellation,      *)
(* socket close, done channel).                                            *)
(***************************************************************************)
EXTENDS Integers, Sequences, FiniteSets, TLC

(* ---------------------------------------------------------------------- *)
(* Program constants                                                       *)
(* ---------------------------------------------------------------------- *)
headerLen == 10
crcLen == 2
BufSize == 2048
Magic == 253
MsgHeartbeat == 0
MsgGlobalPosition == 33

(* ---------------------------------------------------------------------- *)
(* Bounds of the model                                                     *)
(* ---------------------------------------------------------------------- *)
\* declared payload lengths 0..MaxPl are enumerated (255 is always added)
MaxPl == 29
\* datagrams the receive goroutine reads in one run of the session
MaxRecv == 2
\* transient (non-deadline) receive errors in one run of the session
MaxErr == 1

(* ---------------------------------------------------------------------- *)
(* Byte arithmetic                                                         *)
(* ---------------------------------------------------------------------- *)
Byte == 0..255

\* a uint32 is kept as its two 16-bit halves, value = 65536 * hi + lo
\* (TLC's integers are 32-bit signed)
\* binary.LittleEndian.Uint32(b) for the four bytes b0..b3:
\* b0 | b1<<8 | b2<<16 | b3<<24
LittleEndianUint32(b0, b1, b2, b3) ==
    [hi |-> b2 + 256 * b3, lo |-> b0 + 256 * b1]

\* int32(u): two's complement reinterpretation of a uint32
Int32(u) == IF u.hi >= 32768 THEN (u.hi - 65536) * 65536 + u.lo
            ELSE u.hi * 65536 + u.lo

\* (b & 0x80) != 0
Bit7(b) == (b \div 128) % 2 = 1

(* ---------------------------------------------------------------------- *)
(* The receive buffer                                                      *)
(* ---------------------------------------------------------------------- *)
\* buf is BufSize bytes; the model keeps the prefix that has been written
\* since make([]byte, 2048) zeroed it, every byte beyond it being 0
\* buf[i]
At(b, i) == IF i < Len(b) THEN b[i + 1] ELSE 0

(* ---------------------------------------------------------------------- *)
(* Frame decoder                                                           *)
(* ---------------------------------------------------------------------- *)
\* frame{} : the zero value returned with ok = false
ZeroFrame == [Len |-> 0, SysID |-> 0, CompID |-> 0, MsgID |-> 0,
              Payload |-> << >>, Cap |-> 0]

\* parseFrameExit with the trailer left out of both length checks
parseFrameExitNoCrc(b, len) ==
    IF len < headerLen THEN 123
    ELSE IF At(b, 0) # Magic THEN 128
    ELSE IF len < headerLen + At(b, 1) THEN 136
    ELSE 146

\* parseFrameExit with the marker check moved before the length check
parseFrameExitMagicFirst(b, len) ==
    IF At(b, 0) # Magic THEN 128
    ELSE IF len < headerLen + crcLen THEN 123
    ELSE IF len < headerLen + At(b, 1) + crcLen THEN 136
    ELSE 146

\* the return statement parseFrame leaves through: the source line of the
\* failing check, or 146 for the accepting return
parseFrameExit(b, len) ==
    IF len < headerLen + crcLen THEN 123
    ELSE IF At(b, 0) # Magic THEN 128
    ELSE IF len < headerLen + At(b, 1) + crcLen THEN 136
    ELSE 146

\* parseFrame reading the message id big-endian and the payload from
\* offset 9
parseFrameBigEndian(b, len) ==
    IF parseFrameExit(b, len) # 146
    THEN [ok |-> FALSE, f |-> ZeroFrame]
    ELSE [ok |-> TRUE,
          f  |-> [Len     |-> At(b, 1),
                  SysID   |-> At(b, 5),
                  CompID  |-> At(b, 6),
                  MsgID   |-> At(b, 9) + 256 * At(b, 8) + 65536 * At(b, 7),
                  Payload |-> [i \in 1..At(b, 1) |-> At(b, 9 + i - 1)],
                  Cap     |-> BufSize - 9]]

\* parseFrame(buf, n) (frame, bool)
parseFrame(b, len) ==
    IF parseFrameExit(b, len) # 146
    THEN [ok |-> FALSE, f |-> ZeroFrame]
    ELSE [ok |-> TRUE,
          f  |-> [Len     |-> At(b, 1),
                  SysID   |-> At(b, 5),
                  CompID  |-> At(b, 6),
                  MsgID   |-> At(b, 7) + 256 * At(b, 8) + 65536 * At(b, 9),
                  Payload |-> [i \in 1..At(b, 1) |-> At(b, 10 + i - 1)],
                  Cap     |-> BufSize - 10]]

(* ---------------------------------------------------------------------- *)
(* Message dispatcher                                                      *)
(* ---------------------------------------------------------------------- *)
NoRecord == [kind |-> "none"]
PanicRecord == [kind |-> "panic"]

\* p[i] on a slice p: in range exactly when 0 <= i < len(p)
IndexOK(p, i) == i >= 0 /\ i < Len(p)

\* the guard of tryHeartbeat: TRUE when it returns (Heartbeat{}, false)
HeartbeatRejects(f) == f.MsgID # MsgHeartbeat /\ Len(f.Payload) # 9

\* tryHeartbeat(f) (Heartbeat, bool); a run-time index panic is the
\* result "panic"
tryHeartbeat(f) ==
    IF HeartbeatRejects(f)
    THEN [ok |-> FALSE, panic |-> FALSE, hb |-> NoRecord]
    ELSE LET p == f.Payload IN
         IF ~(IndexOK(p, 4) /\ IndexOK(p, 5) /\ IndexOK(p, 6)
              /\ 4 <= f.Cap /\ IndexOK(p, 7))
         THEN [ok |-> FALSE, panic |-> TRUE, hb |-> PanicRecord]
         ELSE [ok |-> TRUE, panic |-> FALSE,
               hb |-> [kind         |-> "Heartbeat",
                       Type         |-> p[5],
                       Autopilot    |-> p[6],
                       BaseMode     |-> p[7],
                       CustomMode   |-> LittleEndianUint32(p[1], p[2], p[3], p[4]),
                       SystemStatus |-> p[8]]]

\* tryGlobalPosition taking the three integers from offsets 0, 4 and 8, the
\* time field forgotten
tryGlobalPositionNoTime(f) ==
    IF f.MsgID # MsgGlobalPosition \/ Len(f.Payload) < 28
    THEN [ok |-> FALSE, gp |-> NoRecord]
    ELSE LET p == f.Payload IN
         [ok |-> TRUE,
          gp |-> [kind   |-> "GlobalPosition",
                  latNum |-> Int32(LittleEndianUint32(p[1], p[2], p[3], p[4])),
                  lonNum |-> Int32(LittleEndianUint32(p[5], p[6], p[7], p[8])),
                  altNum |-> Int32(LittleEndianUint32(p[9], p[10], p[11], p[12])),
                  latDen |-> 10000000,
                  lonDen |-> 10000000,
                  altDen |-> 1000]]

\* tryGlobalPosition(f): latitude and longitude are float64(int32)/1e7 and
\* altitude float64(int32)/1000: kept as the integer numerator and the
\* divisor
tryGlobalPosition(f) ==
    IF f.MsgID # MsgGlobalPosition \/ Len(f.Payload) < 28
    THEN [ok |-> FALSE, gp |-> NoRecord]
    ELSE LET p == f.Payload IN
         [ok |-> TRUE,
          gp |-> [kind   |-> "GlobalPosition",
                  latNum |-> Int32(LittleEndianUint32(p[5], p[6], p[7], p[8])),
                  lonNum |-> Int32(LittleEndianUint32(p[9], p[10], p[11], p[12])),
                  altNum |-> Int32(LittleEndianUint32(p[13], p[14], p[15], p[16])),
                  latDen |-> 10000000,
                  lonDen |-> 10000000,
                  altDen |-> 1000]]

\* the armed flag taken from bit 6 (mask 0x40)
ArmedBit6(hb) == (hb.BaseMode \div 64) % 2 = 1

\* the armed flag main derives before printing a Heartbeat
Armed(hb) == Bit7(hb.BaseMode)

\* the dispatch of the read loop: tryHeartbeat, else tryGlobalPosition;
\* the value is the record printed, NoRecord, or PanicRecord
Dispatch(f) ==
    LET h == tryHeartbeat(f) IN
    IF h.panic THEN PanicRecord
    ELSE IF h.ok THEN [kind         |-> "Heartbeat",
                       Type         |-> h.hb.Type,
                       Autopilot    |-> h.hb.Autopilot,
                       BaseMode     |-> h.hb.BaseMode,
                       armed        |-> Armed(h.hb),
                       CustomMode   |-> h.hb.CustomMode,
                       SystemStatus |-> h.hb.SystemStatus]
    ELSE LET g == tryGlobalPosition(f) IN
         IF g.ok THEN g.gp ELSE NoRecord

\* the payload indices tryHeartbeat reads, the struct literal being
\* evaluated Type p[4], Autopilot p[5], BaseMode p[6], CustomMode p[0:4],
\* SystemStatus p[7], up to the first index out of range; p[0:4] is a
\* reslice, in range up to cap(p)
HeartbeatReads(f) ==
    IF HeartbeatRejects(f) THEN {}
    ELSE LET p == f.Payload IN
         IF ~IndexOK(p, 4) THEN {}
         ELSE IF ~IndexOK(p, 5) THEN {4}
         ELSE IF ~IndexOK(p, 6) THEN {4, 5}
         ELSE IF ~(4 <= f.Cap) THEN {4, 5, 6}
         ELSE {4, 5, 6, 0, 1, 2, 3} \cup (IF IndexOK(p, 7) THEN {7} ELSE {})

\* the same with the call binary.LittleEndian.Uint32(p[0:4]) evaluated before
\* the index expressions: Go fixes the order of function calls only, not the
\* order of a call and an index expression of the same statement
HeartbeatReadsCallFirst(f) ==
    IF HeartbeatRejects(f) THEN {}
    ELSE LET p == f.Payload IN
         IF ~(4 <= f.Cap) THEN {}
         ELSE {0, 1, 2, 3} \cup
              {i \in 4..7 : \A j \in 4..i : IndexOK(p, j)}

\* the read sets a build can produce for tryHeartbeat
HeartbeatReadSets(f) == {HeartbeatReads(f), HeartbeatReadsCallFirst(f)}

\* the payload indices tryGlobalPosition reads: p[4:8], p[8:12], p[12:16]
GlobalPositionReads(f) ==
    IF f.MsgID # MsgGlobalPosition \/ Len(f.Payload) < 28 THEN {} ELSE 4..15

\* the sets of indices of buf the dispatch can read through
\* f.Payload = buf[10 : 10+pl]
DispatchReadSets(f) ==
    LET h == tryHeartbeat(f)
        gp == IF h.panic \/ h.ok THEN {} ELSE GlobalPositionReads(f)
    IN  { {10 + i : i \in hs \cup gp} : hs \in HeartbeatReadSets(f) }

(* ---------------------------------------------------------------------- *)
(* The single-message decoder of cmd/sniffer                               *)
(* ---------------------------------------------------------------------- *)
\* parseMAVLinkPacket without the final check n < 10+9+2
parseMAVLinkPacketNoLenCheck(b, len) ==
    IF len < 10 \/ At(b, 0) # 253
    THEN [ok |-> FALSE, hb |-> NoRecord]
    ELSE LET payloadLen == At(b, 1)
             msgID == At(b, 7) + 256 * At(b, 8) + 65536 * At(b, 9)
         IN  IF msgID # 0 \/ payloadLen # 9
             THEN [ok |-> FALSE, hb |-> NoRecord]
             ELSE [ok |-> TRUE,
                   hb |-> [kind         |-> "Heartbeat",
                           Type         |-> At(b, 10 + 4),
                           Autopilot    |-> At(b, 10 + 5),
                           BaseMode     |-> At(b, 10 + 6),
                           CustomMode   |-> LittleEndianUint32(At(b, 10), At(b, 11),
                                                              At(b, 12), At(b, 13)),
                           SystemStatus |-> At(b, 10 + 7)]]

\* parseMAVLinkPacket(buf, n) (*Heartbeat, error): ok is err == nil
parseMAVLinkPacket(b, len) ==
    IF len < 10 \/ At(b, 0) # 253
    THEN [ok |-> FALSE, hb |-> NoRecord]
    ELSE LET payloadLen == At(b, 1)
             msgID == At(b, 7) + 256 * At(b, 8) + 65536 * At(b, 9)
         IN  IF msgID # 0 \/ payloadLen # 9
             THEN [ok |-> FALSE, hb |-> NoRecord]
             ELSE IF len < 10 + 9 + 2
             THEN [ok |-> FALSE, hb |-> NoRecord]
             ELSE [ok |-> TRUE,
                   hb |-> [kind         |-> "Heartbeat",
                           Type         |-> At(b, 10 + 4),
                           Autopilot    |-> At(b, 10 + 5),
                           BaseMode     |-> At(b, 10 + 6),
                           CustomMode   |-> LittleEndianUint32(At(b, 10), At(b, 11),
                                                              At(b, 12), At(b, 13)),
                           SystemStatus |-> At(b, 10 + 7)]]

(* ---------------------------------------------------------------------- *)
(* Datagrams the socket can deliver                                        *)
(* ---------------------------------------------------------------------- *)
\* a heartbeat payload: customMode bytes 04 03 02 01, type 2, autopilot 3,
\* the given base mode, system status 4, mavlink version 3
HbPayload(base) ==
    [i \in 0..254 |-> IF i = 0 THEN 4 ELSE IF i = 1 THEN 3 ELSE IF i = 2 THEN 2
                      ELSE IF i = 3 THEN 1 ELSE IF i = 4 THEN 2
                      ELSE IF i = 5 THEN 3 ELSE IF i = 6 THEN base
                      ELSE IF i = 7 THEN 4 ELSE IF i = 8 THEN 3
                      ELSE (17 * i + base) % 256]

\* a global position payload: time t t t t, lat 473977420 (0x1C40524C),
\* lon -1223456789 (0xB71387EB), alt -5000 (0xFFFFEC78), little endian
GpPayload(t) ==
    [i \in 0..254 |-> IF i < 4 THEN t
                      ELSE IF i = 4 THEN 76 ELSE IF i = 5 THEN 82
                      ELSE IF i = 6 THEN 64 ELSE IF i = 7 THEN 28
                      ELSE IF i = 8 THEN 235 ELSE IF i = 9 THEN 135
                      ELSE IF i = 10 THEN 19 ELSE IF i = 11 THEN 183
                      ELSE IF i = 12 THEN 120 ELSE IF i = 13 THEN 236
                      ELSE IF i = 14 THEN 255 ELSE IF i = 15 THEN 255
                      ELSE (29 * i + t) % 256]

\* the first len bytes a sender puts on the wire for a v2 frame with the
\* given marker, declared payload length, ids and payload, followed by two
\* checksum bytes and padding
MkDatagram(magic, pl, sys, comp, id, payload, len) ==
    [k \in 1..len |->
        LET i == k - 1 IN
        IF i = 0 THEN magic
        ELSE IF i = 1 THEN pl
        ELSE IF i < 5 THEN 0
        ELSE IF i = 5 THEN sys
        ELSE IF i = 6 THEN comp
        ELSE IF i = 7 THEN id % 256
        ELSE IF i = 8 THEN (id \div 256) % 256
        ELSE IF i = 9 THEN (id \div 65536) % 256
        ELSE IF i < 10 + pl THEN payload[i - 10]
        ELSE IF i < 12 + pl THEN 170
        ELSE 204]

\* make([]byte, 2048): nothing written yet
ZeroBuf == << >>

\* ReadFromUDP(buf) storing datagram d: the first len(d) bytes of buf are
\* overwritten, the rest keeps what earlier datagrams left
StoreDatagram(b, d) ==
    IF Len(d) >= Len(b) THEN d ELSE d \o SubSeq(b, Len(d) + 1, Len(b))

\* the datagrams the session receives
SessionDatagrams ==
    { MkDatagram(Magic, 9, 1, 1, 0, HbPayload(128), 21),
      MkDatagram(Magic, 28, 1, 1, 33, GpPayload(7), 40),
      MkDatagram(Magic, 9, 1, 1, 42, HbPayload(127), 21),
      MkDatagram(Magic, 2, 1, 1, 42, HbPayload(0), 14),
      MkDatagram(Magic, 0, 1, 1, 0, HbPayload(0), 12),
      MkDatagram(254, 9, 1, 1, 0, HbPayload(128), 21),
      << >> }

\* a buffer still holding an earlier, long, well-formed heartbeat frame
StaleBuf == StoreDatagram(ZeroBuf, MkDatagram(Magic, 255, 9, 9, 0, HbPayload(255), 267))

\* declared payload lengths, message ids, payloads and datagram lengths the
\* decoder is exercised on
DecodePls == (0..MaxPl) \cup {255}
DecodeIds == {0, 33, 42, 289, 65536}
DecodePayloads ==
    {HbPayload(127), HbPayload(128), HbPayload(255), GpPayload(7), GpPayload(200)}
DecodeLens(pl) ==
    IF pl = 255 THEN {0, 11, 12, pl + 11, pl + 12, pl + 13, BufSize}
    ELSE 0..(pl + 13)
DecodeMagics == {Magic, 254}

(* ---------------------------------------------------------------------- *)
(* State                                                                   *)
(* ---------------------------------------------------------------------- *)
VARIABLES
    mainPc,      \* position of main: bind, announce, spawn, waitCtx, close,
                 \* waitDone, bye, exited
    recvPc,      \* position of the receive goroutine: none, read,
                 \* timeoutSel, errSel, parse, dispatch, exited, panicked
    proc,        \* the process: running, fatal (log.Fatalf), crashed
                 \* (unrecovered panic), exited (main returned)
    cancelled,   \* ctx.Done() is closed
    closeCalls,  \* calls of conn.Close() so far
    done,        \* the done channel is closed
    buf,         \* buf of the receive goroutine
    n,           \* n of the last successful ReadFromUDP
    fr,          \* (f, ok) of parseFrame in this iteration
    prExit,      \* source line of the return parseFrame left through in
                 \* this iteration, 0 before the call
    rec,         \* what the dispatch of this iteration produced
    emitted,     \* records printed so far
    nrecv,       \* datagrams received so far
    logged,      \* "read: ..." lines logged so far
    observed,    \* the receive goroutine took a <-ctx.Done() branch
    reads,       \* indices of buf the decoders read in this iteration
    sess         \* the listener session: bound (ListenUDP succeeded),
                 \* announced (the announce datagram was written), closes
                 \* (times the socket went from open to closed), joins
                 \* (times main received from done), closedReads (reads
                 \* the goroutine attempted on the closed socket)

vars == <<mainPc, recvPc, proc, cancelled, closeCalls, done, buf, n, fr, prExit, rec,
          emitted, nrecv, logged, observed, reads, sess>>

NoFrame == [ok |-> FALSE, f |-> ZeroFrame]

sockClosed == closeCalls > 0

\* conn.Close(): the socket goes from open to closed on the first call; a
\* call on a closed socket closes nothing and returns an error
SocketCloses(closes, closed) == IF closed THEN closes ELSE closes + 1

Init ==
    /\ mainPc = "bind"
    /\ recvPc = "none"
    /\ proc = "running"
    /\ cancelled = FALSE
    /\ closeCalls = 0
    /\ done = FALSE
    /\ buf = ZeroBuf
    /\ n = 0
    /\ fr = NoFrame
    /\ prExit = 0
    /\ rec = NoRecord
    /\ reads = {}
    /\ emitted = 0
    /\ nrecv = 0
    /\ logged = 0
    /\ observed = FALSE
    /\ sess = [bound |-> FALSE, announced |-> FALSE, closes |-> 0,
               joins |-> 0, closedReads |-> 0]

(* ---------------------------------------------------------------------- *)
(* The environment                                                         *)
(* ---------------------------------------------------------------------- *)
\* SIGINT or SIGTERM arrives: signal.NotifyContext cancels ctx
Signal ==
    /\ proc = "running"
    /\ ~cancelled
    /\ cancelled' = TRUE
    /\ UNCHANGED <<mainPc, recvPc, proc, closeCalls, done, buf, n, fr, prExit, rec, reads,
                   emitted, nrecv, logged, observed, sess>>

(* ---------------------------------------------------------------------- *)
(* main                                                                    *)
(* ---------------------------------------------------------------------- *)
\* net.ListenUDP succeeds
MainBind ==
    /\ proc = "running" /\ mainPc = "bind"
    /\ mainPc' = "announce"
    /\ sess' = [sess EXCEPT !.bound = TRUE]
    /\ UNCHANGED <<recvPc, proc, cancelled, closeCalls, done, buf, n, fr, prExit, rec, reads,
                   emitted, nrecv, logged, observed>>

\* net.ListenUDP fails: log.Fatalf
MainBindFail ==
    /\ proc = "running" /\ mainPc = "bind"
    /\ proc' = "fatal"
    /\ UNCHANGED <<mainPc, recvPc, cancelled, closeCalls, done, buf, n, fr, prExit, rec, reads,
                   emitted, nrecv, logged, observed, sess>>

\* conn.WriteToUDP([]byte{0x01}, raddr) succeeds
MainAnnounce ==
    /\ proc = "running" /\ mainPc = "announce"
    /\ mainPc' = "spawn"
    /\ sess' = [sess EXCEPT !.announced = TRUE]
    /\ UNCHANGED <<recvPc, proc, cancelled, closeCalls, done, buf, n, fr, prExit, rec, reads,
                   emitted, nrecv, logged, observed>>

\* conn.WriteToUDP fails and main only logs it, going on to the read loop
MainAnnounceFailLogged ==
    /\ proc = "running" /\ mainPc = "announce"
    /\ mainPc' = "spawn"
    /\ UNCHANGED <<recvPc, proc, cancelled, closeCalls, done, buf, n, fr, prExit, rec, reads,
                   emitted, nrecv, logged, observed, sess>>

\* conn.WriteToUDP fails: log.Fatalf
MainAnnounceFail ==
    /\ proc = "running" /\ mainPc = "announce"
    /\ proc' = "fatal"
    /\ UNCHANGED <<mainPc, recvPc, cancelled, closeCalls, done, buf, n, fr, prExit, rec, reads,
                   emitted, nrecv, logged, observed, sess>>

\* done := make(chan struct{}); go func() {...}()
MainSpawn ==
    /\ proc = "running" /\ mainPc = "spawn"
    /\ mainPc' = "waitCtx"
    /\ recvPc' = "read"
    /\ UNCHANGED <<proc, cancelled, closeCalls, done, buf, n, fr, prExit, rec, reads,
                   emitted, nrecv, logged, observed, sess>>

\* main going on to close the socket without waiting for ctx.Done()
MainWaitCtxNoWait ==
    /\ proc = "running" /\ mainPc = "waitCtx"
    /\ mainPc' = "close"
    /\ UNCHANGED <<recvPc, proc, cancelled, closeCalls, done, buf, n, fr, prExit, rec, reads,
                   emitted, nrecv, logged, observed, sess>>

\* <-ctx.Done()
MainWaitCtx ==
    /\ proc = "running" /\ mainPc = "waitCtx"
    /\ cancelled
    /\ mainPc' = "close"
    /\ UNCHANGED <<recvPc, proc, cancelled, closeCalls, done, buf, n, fr, prExit, rec, reads,
                   emitted, nrecv, logged, observed, sess>>

\* fmt.Println("Shutting down gracefully..."); conn.Close()
MainClose ==
    /\ proc = "running" /\ mainPc = "close"
    /\ closeCalls' = closeCalls + 1
    /\ mainPc' = "waitDone"
    /\ sess' = [sess EXCEPT !.closes = SocketCloses(sess.closes, sockClosed)]
    /\ UNCHANGED <<recvPc, proc, cancelled, done, buf, n, fr, prExit, rec, reads,
                   emitted, nrecv, logged, observed>>

\* main not waiting for done
DoneReceivableAlways == TRUE

\* the guard of <-done
DoneReceivable == done

\* <-done
MainWaitDone ==
    /\ proc = "running" /\ mainPc = "waitDone"
    /\ DoneReceivable
    /\ mainPc' = "bye"
    /\ sess' = [sess EXCEPT !.joins = @ + 1]
    /\ UNCHANGED <<recvPc, proc, cancelled, closeCalls, done, buf, n, fr, prExit, rec, reads,
                   emitted, nrecv, logged, observed>>

\* main returning without the deferred conn.Close()
MainByeNoDefer ==
    /\ proc = "running" /\ mainPc = "bye"
    /\ mainPc' = "exited"
    /\ proc' = "exited"
    /\ UNCHANGED <<recvPc, cancelled, closeCalls, done, buf, n, fr, prExit, rec, reads,
                   emitted, nrecv, logged, observed, sess>>

\* fmt.Println("bye"); main returns: the deferred conn.Close() and stop()
\* run and the process exits
MainBye ==
    /\ proc = "running" /\ mainPc = "bye"
    /\ closeCalls' = closeCalls + 1
    /\ mainPc' = "exited"
    /\ proc' = "exited"
    /\ sess' = [sess EXCEPT !.closes = SocketCloses(sess.closes, sockClosed)]
    /\ UNCHANGED <<recvPc, cancelled, done, buf, n, fr, prExit, rec, reads,
                   emitted, nrecv, logged, observed>>

(* ---------------------------------------------------------------------- *)
(* The receive goroutine                                                   *)
(* ---------------------------------------------------------------------- *)
\* SetReadDeadline; ReadFromUDP(buf) returns a datagram
RecvDatagram ==
    /\ proc = "running" /\ recvPc = "read"
    /\ ~sockClosed
    /\ nrecv < MaxRecv
    /\ \E d \in SessionDatagrams :
          /\ buf' = StoreDatagram(buf, d)
          /\ n' = Len(d)
    /\ nrecv' = nrecv + 1
    /\ fr' = NoFrame
    /\ prExit' = 0
    /\ rec' = NoRecord
    /\ reads' = {}
    /\ recvPc' = "parse"
    /\ UNCHANGED <<mainPc, proc, cancelled, closeCalls, done,
                   emitted, logged, observed, sess>>

\* SetReadDeadline; ReadFromUDP(buf) returns the deadline-expiry error
RecvTimeout ==
    /\ proc = "running" /\ recvPc = "read"
    /\ ~sockClosed
    /\ fr' = NoFrame
    /\ prExit' = 0
    /\ rec' = NoRecord
    /\ reads' = {}
    /\ recvPc' = "timeoutSel"
    /\ UNCHANGED <<mainPc, proc, cancelled, closeCalls, done, buf, n,
                   emitted, nrecv, logged, observed, sess>>

\* SetReadDeadline; ReadFromUDP(buf) returns another error: the socket was
\* closed, or a transient error
RecvError ==
    /\ proc = "running" /\ recvPc = "read"
    /\ sockClosed \/ logged < MaxErr
    /\ fr' = NoFrame
    /\ prExit' = 0
    /\ rec' = NoRecord
    /\ reads' = {}
    /\ recvPc' = "errSel"
    /\ sess' = [sess EXCEPT !.closedReads = IF sockClosed THEN @ + 1 ELSE @]
    /\ UNCHANGED <<mainPc, proc, cancelled, closeCalls, done, buf, n,
                   emitted, nrecv, logged, observed>>

\* the case <-ctx.Done() continuing the loop
AfterCtxDoneContinue == "read"

\* where the goroutine goes from the case <-ctx.Done() of a select: return
AfterCtxDone == "exited"

\* the error branches returning whatever the state of ctx
SelectCtxAlwaysReturn ==
    /\ observed' = cancelled
    /\ recvPc' = "exited"
    /\ done' = TRUE

\* select { case <-ctx.Done(): return; default: continue }, with the
\* deferred close(done) on return
SelectCtx ==
    IF cancelled
    THEN /\ observed' = TRUE
         /\ recvPc' = AfterCtxDone
         /\ done' = (AfterCtxDone = "exited")
    ELSE /\ recvPc' = "read"
         /\ UNCHANGED <<observed, done>>

\* the select of the timeout branch
RecvTimeoutSelect ==
    /\ proc = "running" /\ recvPc = "timeoutSel"
    /\ SelectCtx
    /\ UNCHANGED <<mainPc, proc, cancelled, closeCalls, buf, n, fr, prExit, rec, reads,
                   emitted, nrecv, logged, sess>>

\* log.Printf("read: %v", err) and the select of the error branch
RecvErrorSelect ==
    /\ proc = "running" /\ recvPc = "errSel"
    /\ logged' = logged + 1
    /\ SelectCtx
    /\ UNCHANGED <<mainPc, proc, cancelled, closeCalls, buf, n, fr, prExit, rec, reads,
                   emitted, nrecv, sess>>

\* f, ok := parseFrame(buf, n)
RecvParse ==
    /\ proc = "running" /\ recvPc = "parse"
    /\ fr' = parseFrame(buf, n)
    /\ prExit' = parseFrameExit(buf, n)
    /\ recvPc' = IF fr'.ok THEN "dispatch" ELSE "read"
    /\ UNCHANGED <<mainPc, proc, cancelled, closeCalls, done, buf, n, rec, reads,
                   emitted, nrecv, logged, observed, sess>>

\* tryHeartbeat(f), else tryGlobalPosition(f), and fmt.Println of the record;
\* an index panic unwinds the goroutine, running the deferred close(done)
RecvDispatch ==
    /\ proc = "running" /\ recvPc = "dispatch"
    /\ rec' = Dispatch(fr.f)
    /\ reads' \in DispatchReadSets(fr.f)
    /\ IF rec'.kind = "panic"
       THEN /\ recvPc' = "panicked"
            /\ done' = TRUE
            /\ UNCHANGED emitted
       ELSE /\ recvPc' = "read"
            /\ emitted' = IF rec'.kind = "none" THEN emitted ELSE emitted + 1
            /\ UNCHANGED done
    /\ UNCHANGED <<mainPc, proc, cancelled, closeCalls, buf, n, fr, prExit,
                   nrecv, logged, observed, sess>>

\* the Go runtime ends the process after an unrecovered panic
RuntimeCrash ==
    /\ proc = "running" /\ recvPc = "panicked"
    /\ proc' = "crashed"
    /\ UNCHANGED <<mainPc, recvPc, cancelled, closeCalls, done, buf, n, fr, prExit, rec, reads,
                   emitted, nrecv, logged, observed, sess>>

(* ---------------------------------------------------------------------- *)
(* Specifications                                                          *)
(* ---------------------------------------------------------------------- *)
MainStep ==
    \/ MainBind \/ MainBindFail \/ MainAnnounce \/ MainAnnounceFail
    \/ MainSpawn \/ MainWaitCtx \/ MainClose \/ MainWaitDone \/ MainBye

RecvRead == RecvDatagram \/ RecvTimeout \/ RecvError

RecvStep ==
    \/ RecvRead \/ RecvTimeoutSelect \/ RecvErrorSelect
    \/ RecvParse \/ RecvDispatch

Next == Signal \/ MainStep \/ RecvStep \/ RuntimeCrash

\* the listener session
Spec == Init /\ [][Next]_vars

\* the listener session under a fair scheduler: a goroutine that can take a
\* step eventually takes one, a read with a deadline eventually returns, and
\* the runtime eventually ends a panicking process; signals and startup
\* failures are not forced
FairSpec ==
    /\ Spec
    /\ WF_vars(MainBind \/ MainAnnounce \/ MainSpawn \/ MainWaitCtx
               \/ MainClose \/ MainWaitDone \/ MainBye)
    /\ WF_vars(RecvStep)
    /\ WF_vars(RuntimeCrash)

\* the decoder alone: the receive goroutine holds an arbitrary datagram in a
\* buffer with arbitrary earlier content and runs parseFrame and the dispatch
DecodeInit ==
    /\ mainPc = "waitCtx"
    /\ recvPc = "parse"
    /\ proc = "running"
    /\ cancelled = FALSE
    /\ closeCalls = 0
    /\ done = FALSE
    /\ \E magic \in DecodeMagics, pl \in DecodePls, id \in DecodeIds,
          payload \in DecodePayloads, stale \in {ZeroBuf, StaleBuf} :
          \E len \in DecodeLens(pl) :
             /\ buf = StoreDatagram(stale, MkDatagram(magic, pl, 1, 200, id, payload, len))
             /\ n = len
    /\ fr = NoFrame
    /\ prExit = 0
    /\ rec = NoRecord
    /\ reads = {}
    /\ emitted = 0
    /\ nrecv = 1
    /\ logged = 0
    /\ observed = FALSE
    /\ sess = [bound |-> TRUE, announced |-> TRUE, closes |-> 0,
               joins |-> 0, closedReads |-> 0]

DecodeNext == RecvParse \/ RecvDispatch

DecodeSpec == DecodeInit /\ [][DecodeNext]_vars

(* ---------------------------------------------------------------------- *)
(* Properties                                                              *)
(* ---------------------------------------------------------------------- *)
\* parseFrame has run on the datagram in buf
Parsed == prExit # 0

\* parseFrame accepted the datagram and the dispatch has run on the frame
Dispatched == fr.ok /\ recvPc \in {"read", "panicked"}

\* payload byte i (from 0) of the datagram in buf
PayloadByte(i) == At(buf, 10 + i)

\* C1: for every accepted frame whose messageId is neither 0 nor 33, with
\* any payload length, the dispatch of the read loop produces no record.
C1_UnknownIdNoRecord ==
    (Dispatched /\ fr.f.MsgID \notin {0, 33}) => rec.kind = "none"

\* C2: for every accepted frame with messageId 0 and a payload shorter than
\* 9 bytes, the heartbeat decode yields no record and does not fail.
C2_ShortHeartbeatNoRecord ==
    (Dispatched /\ fr.f.MsgID = 0 /\ Len(fr.f.Payload) < 9) => rec.kind = "none"

\* C3: no received datagram ends the receive loop or halts the process:
\* while cancellation is not active the started receive goroutine is in its
\* loop and the process is running.
C3_LoopSurvivesDatagrams ==
    (recvPc # "none" /\ ~cancelled) =>
        /\ proc = "running"
        /\ recvPc \in {"read", "timeoutSel", "errSel", "parse", "dispatch"}

\* C4: once cancellation is issued in a started session, the main task
\* closes the socket, the receive task exits and closes done, and the
\* session reaches Closed (main returns).
C4_CancelLeadsToClosed ==
    (cancelled /\ recvPc # "none") ~>
        (sockClosed /\ done /\ recvPc = "exited" /\ mainPc = "exited")

\* C5 as claimed: no record is printed once the receive task has observed
\* the cancellation, nor once the socket has been closed after cancellation.
C5_NoEmitAfterObservedOrClose ==
    [][(observed \/ (cancelled /\ sockClosed)) => emitted' = emitted]_vars

\* C5 amended: no record is printed once the receive task has observed the
\* cancellation signal.
C5_NoEmitAfterObserved ==
    [][observed => emitted' = emitted]_vars

C5_Witness == observed /\ recvPc = "exited" /\ emitted > 0 /\ sockClosed

\* C6: main is past the wait on done (printing "bye" or returned) only when
\* done is closed and the receive goroutine has left its loop.
C6_MainWaitsForDone ==
    mainPc \in {"bye", "exited"} => (done /\ recvPc \in {"exited", "panicked"})

C6_Witness == mainPc = "exited" /\ recvPc = "exited" /\ emitted > 0

\* C7: parseFrame rejects a datagram of length n exactly when n < 12, or its
\* first byte is not 0xFD, or 10 + byte 1 + 2 > n, whatever the buffer holds
\* beyond n.
C7_RejectExactly ==
    Parsed =>
        (~fr.ok <=> (n < 12 \/ At(buf, 0) # 253 \/ 10 + At(buf, 1) + 2 > n))

C7_Witness ==
    /\ Parsed /\ fr.ok
    /\ n = 10 + At(buf, 1) + 2
    /\ Len(buf) > n /\ At(buf, n) # 0

\* what parseFrame returns for a datagram that is too short, one with a wrong
\* marker and one whose declared length exceeds it
RejTooShort == parseFrame(<< >>, 0)
RejBadMagic == parseFrame(MkDatagram(254, 0, 1, 1, 0, HbPayload(0), 12), 12)
RejIncomplete == parseFrame(MkDatagram(Magic, 9, 1, 1, 0, HbPayload(0), 12), 12)

\* the first check the datagram in buf fails, in the order TooShort,
\* BadMagic, Incomplete
FirstFailing ==
    IF n < 12 THEN "TooShort"
    ELSE IF At(buf, 0) # 253 THEN "BadMagic"
    ELSE IF 10 + At(buf, 1) + 2 > n THEN "Incomplete"
    ELSE "None"

\* C8 as claimed: each failing check has its own rejection reason, and the
\* reason reported is that of the first check that fails: a rejection equal
\* to the one of a too short (wrong marker, incomplete) datagram is reported
\* only for a datagram whose first failing check is that one.
C8_DistinctReasons ==
    (Parsed /\ ~fr.ok) =>
        /\ prExit = (IF n < 12 THEN 123 ELSE IF At(buf, 0) # 253 THEN 128 ELSE 136)
        /\ fr = RejTooShort => FirstFailing = "TooShort"
        /\ fr = RejBadMagic => FirstFailing = "BadMagic"
        /\ fr = RejIncomplete => FirstFailing = "Incomplete"

\* C8 amended: parseFrame applies the checks in the order TooShort, BadMagic,
\* Incomplete and returns at the first that fails, and every rejection
\* returns the same value, the zero frame with ok = false.
C8_FirstFailingCheckNoReason ==
    (Parsed /\ ~fr.ok) =>
        /\ prExit = (IF n < 12 THEN 123 ELSE IF At(buf, 0) # 253 THEN 128 ELSE 136)
        /\ fr.f.Len = 0 /\ fr.f.SysID = 0 /\ fr.f.CompID = 0 /\ fr.f.MsgID = 0
        /\ Len(fr.f.Payload) = 0
        /\ fr = RejTooShort /\ fr = RejBadMagic /\ fr = RejIncomplete

C8_Witness ==
    /\ Parsed /\ ~fr.ok /\ prExit = 123
    /\ n = 11 /\ At(buf, 0) # 253

\* C9: for every datagram parseFrame accepts, SysID is byte 5, CompID byte 6,
\* MsgID the 24-bit little-endian value of bytes 7..9, Len byte 1, and
\* Payload the Len bytes from offset 10.
C9_FieldExtraction ==
    (Parsed /\ fr.ok) =>
        /\ fr.f.SysID = At(buf, 5)
        /\ fr.f.CompID = At(buf, 6)
        /\ fr.f.MsgID \in 0..16777215
        /\ fr.f.MsgID % 256 = At(buf, 7)
        /\ (fr.f.MsgID \div 256) % 256 = At(buf, 8)
        /\ fr.f.MsgID \div 65536 = At(buf, 9)
        /\ fr.f.Len = At(buf, 1)
        /\ Len(fr.f.Payload) = fr.f.Len
        /\ \A i \in 1..fr.f.Len : fr.f.Payload[i] = At(buf, 10 + i - 1)

C9_Witness ==
    /\ Parsed /\ fr.ok
    /\ fr.f.MsgID = 289 /\ fr.f.Len = 28
    /\ fr.f.SysID = 1 /\ fr.f.CompID = 200
    /\ fr.f.Payload[5] = 76

\* C10: for every accepted frame with messageId 0 and at least 9 payload
\* bytes the dispatch yields a Heartbeat with CustomMode the little-endian
\* uint32 of payload bytes 0..3, Type byte 4, Autopilot byte 5, BaseMode
\* byte 6, SystemStatus byte 7, and armed exactly when bit 7 of BaseMode is
\* set (0x7F: false; 0x80, 0xFF: true; bytes 04 03 02 01: 0x01020304).
C10_HeartbeatFields ==
    (Dispatched /\ fr.f.MsgID = 0 /\ Len(fr.f.Payload) >= 9) =>
        /\ rec.kind = "Heartbeat"
        /\ rec.CustomMode.lo = PayloadByte(0) + 256 * PayloadByte(1)
        /\ rec.CustomMode.hi = PayloadByte(2) + 256 * PayloadByte(3)
        /\ rec.Type = PayloadByte(4)
        /\ rec.Autopilot = PayloadByte(5)
        /\ rec.BaseMode = PayloadByte(6)
        /\ rec.SystemStatus = PayloadByte(7)
        /\ rec.armed <=> rec.BaseMode >= 128
        /\ rec.BaseMode = 127 => ~rec.armed
        /\ rec.BaseMode \in {128, 255} => rec.armed
        /\ (PayloadByte(0) = 4 /\ PayloadByte(1) = 3 /\ PayloadByte(2) = 2
            /\ PayloadByte(3) = 1) => rec.CustomMode = [hi |-> 258, lo |-> 772]

C10_Witness ==
    /\ Dispatched /\ fr.f.MsgID = 0 /\ Len(fr.f.Payload) = 9
    /\ rec.kind = "Heartbeat" /\ rec.BaseMode = 255 /\ rec.armed
    /\ rec.CustomMode = [hi |-> 258, lo |-> 772]

\* the two's complement signed 32-bit little-endian integer at payload bytes
\* i .. i+3 of the datagram in buf
SignedLE(i) ==
    PayloadByte(i) + 256 * PayloadByte(i + 1) + 65536 * PayloadByte(i + 2)
    + 16777216 * (IF PayloadByte(i + 3) >= 128 THEN PayloadByte(i + 3) - 256
                  ELSE PayloadByte(i + 3))

\* C11: for every accepted frame with messageId 33 and at least 28 payload
\* bytes the dispatch yields a GlobalPosition (not a Heartbeat) whose
\* latitude, longitude and altitude are the signed 32-bit little-endian
\* integers at payload bytes 4..7, 8..11 and 12..15 over 1e7, 1e7 and 1e3;
\* the sign is kept (-5000 mm is -5 m) and bytes 0..3 play no part.
C11_GlobalPositionFields ==
    (Dispatched /\ fr.f.MsgID = 33 /\ Len(fr.f.Payload) >= 28) =>
        /\ rec.kind = "GlobalPosition"
        /\ rec.latNum = SignedLE(4) /\ rec.latDen = 10000000
        /\ rec.lonNum = SignedLE(8) /\ rec.lonDen = 10000000
        /\ rec.altNum = SignedLE(12) /\ rec.altDen = 1000
        /\ (PayloadByte(12) = 120 /\ PayloadByte(13) = 236 /\ PayloadByte(14) = 255
            /\ PayloadByte(15) = 255) => rec.altNum = (-5) * rec.altDen

C11_Witness ==
    /\ Dispatched /\ fr.f.MsgID = 33 /\ Len(fr.f.Payload) = 28
    /\ PayloadByte(0) = 200
    /\ rec.kind = "GlobalPosition"
    /\ rec.latNum = 473977420 /\ rec.lonNum = -1223456789 /\ rec.altNum = -5000

\* C12: for every accepted frame with messageId 33 and fewer than 28 payload
\* bytes the dispatch produces no record of any kind.
C12_ShortGlobalPositionNoRecord ==
    (Dispatched /\ fr.f.MsgID = 33 /\ Len(fr.f.Payload) < 28) => rec.kind = "none"

\* C13 as claimed: over a run that reaches shutdown (main returns) the socket
\* close operation is performed exactly once and the loop is joined exactly
\* once.
C13_CloseCalledOnce ==
    mainPc = "exited" => (closeCalls = 1 /\ sess.joins = 1)

\* C13 amended: the socket goes from open to closed at most once and main
\* receives from done at most once; when main returns, conn.Close() has been
\* called twice (the explicit call and the deferred one), the socket was
\* closed once, by the first call, and the loop was joined once.
C13_ClosedOnceCalledTwice ==
    /\ sess.closes <= 1
    /\ sess.joins <= 1
    /\ (closeCalls > 0 => sess.closes = 1)
    /\ (mainPc = "exited" => (closeCalls = 2 /\ sess.closes = 1 /\ sess.joins = 1))

C13_Witness ==
    mainPc = "exited" /\ proc = "exited" /\ closeCalls = 2 /\ sess.joins = 1

\* C14: the receive loop runs only after the bind succeeded and then the
\* announce datagram was sent; when the bind or the announce fails the
\* process halts with no receive performed and no record printed.
C14_StartupOrder ==
    /\ (sess.announced => sess.bound)
    /\ (recvPc # "none" => (sess.bound /\ sess.announced))
    /\ ((nrecv > 0 \/ emitted > 0) => recvPc # "none")
    /\ (proc = "fatal" =>
            (/\ recvPc = "none" /\ nrecv = 0 /\ emitted = 0
             /\ ~sess.announced
             /\ mainPc \in {"bind", "announce"}))

C14_Witness == proc = "fatal" /\ sess.bound /\ ~sess.announced /\ mainPc = "announce"

\* C15: a loop iteration that ends in a receive error leaves the loop exactly
\* when cancellation is active at its check; otherwise it goes back to the
\* read and done stays open. A line is logged exactly by the non-deadline
\* error branch.
C15_ErrorBranchExitIffCancelled ==
    [][/\ (recvPc \in {"timeoutSel", "errSel"} /\ recvPc' # recvPc) =>
              /\ (recvPc' = "exited") <=> cancelled
              /\ cancelled => (done' /\ observed')
              /\ ~cancelled => (recvPc' = "read" /\ done' = done /\ ~done')
       /\ (logged' # logged) <=> (recvPc = "errSel" /\ recvPc' # recvPc)
       /\ logged' # logged => logged' = logged + 1
      ]_vars

C15_Witness ==
    logged = 1 /\ recvPc = "read" /\ ~cancelled /\ ~done /\ nrecv > 0

\* C17: once main has closed the socket the receive goroutine attempts at
\* most one more receive, which fails, and then it exits and closes done.
C17_OneReadAfterClose ==
    /\ sess.closedReads <= 1
    /\ (sess.closedReads = 1 => (recvPc \in {"errSel", "exited"} /\ cancelled))
    /\ ((sess.closedReads = 1 /\ recvPc = "exited") => done)
    /\ ((sockClosed /\ recvPc \in {"parse", "dispatch"}) => sess.closedReads = 0)

C17_Witness ==
    sess.closedReads = 1 /\ recvPc = "exited" /\ done /\ logged = 1 /\ emitted > 0

\* C18: the socket is closed only when cancellation is already active, so
\* the receive goroutine never gets a closed-socket error while cancellation
\* is inactive.
C18_ClosedOnlyIfCancelled ==
    /\ (sockClosed => cancelled)
    /\ (sess.closes > 0 => cancelled)
    /\ (sess.closedReads > 0 => cancelled)
    /\ ((recvPc = "errSel" /\ ~cancelled) => ~sockClosed)

C18_Witness ==
    sockClosed /\ cancelled /\ recvPc = "errSel" /\ sess.closedReads = 1

\* C16: for every frame parseFrame accepts from a datagram of length n the
\* payload occupies indices 10 .. 10+Len-1 with 10 + Len + 2 <= n, and the
\* decoders read no byte of buf outside the payload, so none that is not
\* part of the current datagram.
C16_ReadsWithinDatagram ==
    /\ (Parsed /\ fr.ok) =>
           (10 + fr.f.Len + 2 <= n /\ Len(fr.f.Payload) = fr.f.Len)
    /\ Dispatched =>
           \A i \in reads : 10 <= i /\ i < 10 + fr.f.Len /\ i < n - 2

\* what the decoder of cmd/sniffer returns for the datagram in buf
Sniffer == parseMAVLinkPacket(buf, n)

\* C19: whenever parseMAVLinkPacket returns a Heartbeat for a datagram,
\* parseFrame accepts it and the dispatch yields a Heartbeat with the same
\* Type, Autopilot, BaseMode, CustomMode and SystemStatus; whenever
\* parseFrame rejects, parseMAVLinkPacket returns an error.
C19_SnifferRefined ==
    /\ (Parsed /\ Sniffer.ok) => fr.ok
    /\ (Parsed /\ ~fr.ok) => ~Sniffer.ok
    /\ (Dispatched /\ Sniffer.ok) =>
           /\ rec.kind = "Heartbeat"
           /\ rec.Type = Sniffer.hb.Type
           /\ rec.Autopilot = Sniffer.hb.Autopilot
           /\ rec.BaseMode = Sniffer.hb.BaseMode
           /\ rec.CustomMode = Sniffer.hb.CustomMode
           /\ rec.SystemStatus = Sniffer.hb.SystemStatus

C19_Witness ==
    /\ Dispatched /\ Sniffer.ok /\ rec.kind = "Heartbeat"
    /\ n = 22 /\ Len(buf) > n
    /\ rec.BaseMode = 128 /\ rec.CustomMode = [hi |-> 258, lo |-> 772]

====
